---- MODULE Spec2Model ----
(***************************************************************************)
(* The line-editing field of cinput: CommandWindow.Input in                *)
(* src/cinput/cinput.py.  One session of Input.get_input is modelled: the  *)
(* edit buffer, the cursor, the history pointer, the saved draft, the      *)
(* autocomplete lists and the history file.                                *)
(*                                                                         *)
(* A string is a sequence of one-character strings, so that Python's       *)
(* slices, startswith, list(str) and "".join(list) can be computed.        *)
(* Python indices start at 0, TLA+ indices at 1: every index below is the  *)
(* Python index, and the helpers add the 1.                                *)
(***************************************************************************)
EXTENDS Integers, Sequences, FiniteSets, TLC

VARIABLES
    bound,              \* self.bound
    default,            \* self.default
    input_type,         \* "text": a TextInput, "path": a PathInput
    history,            \* self.history, as read at construction
    file,               \* the lines of the history file
    text_buffer,        \* self.text_buffer
    cursor_pos,         \* self.cursor_pos
    hist_ptr,           \* self.hist_ptr
    saved_text_buffer,  \* self.saved_text_buffer
    history_matches,    \* self.history_matches
    extended_matches,   \* self.extended_matches
    matches,            \* self.matches
    match_index,        \* self.match_index
    autocomplete_buffer,\* self.autocomplete_buffer
    phase,              \* where the session is: constructed, editing, or ended
    result              \* what get_input returned

vars == <<bound, default, input_type, history, file, text_buffer, cursor_pos, hist_ptr,
          saved_text_buffer, history_matches, extended_matches, matches,
          match_index, autocomplete_buffer, phase, result>>

(***************************************************************************)
(* Bounds of the model.                                                    *)
(***************************************************************************)
\* the edit buffer is not grown past this length (the code sets no limit)
MaxLen == 3
\* the extended pool is not grown past this many candidates
MaxPool == 2
\* the edit buffer of a path field is not grown past this length
MaxPathLen == 2

Char == {"a", "b"}

A == <<"a">>
B == <<"b">>
AB == <<"a", "b">>
ABB == <<"a", "b", "b">>
BA == <<"b", "a">>
BB == <<"b", "b">>

\* the text fields checked: the history file (oldest line first), and the
\* default, bound and input_type CommandWindow.get_input constructs the field
\* with
Sessions ==
    { [file |-> <<>>, bound |-> 0, default |-> B, input_type |-> "text"],
      [file |-> <<>>, bound |-> 1, default |-> <<>>, input_type |-> "text"],
      [file |-> <<A, AB>>, bound |-> 2, default |-> B, input_type |-> "text"],
      [file |-> <<A, AB>>, bound |-> 1, default |-> <<>>, input_type |-> "text"],
      [file |-> <<A, ABB>>, bound |-> 2, default |-> <<>>, input_type |-> "text"],
      [file |-> <<ABB, A>>, bound |-> 2, default |-> B, input_type |-> "text"],
      [file |-> <<A, A>>, bound |-> 1, default |-> <<>>, input_type |-> "text"] }

\* the path fields checked
PathSessions ==
    { [file |-> <<>>, bound |-> 0, default |-> B, input_type |-> "path"],
      [file |-> <<BA>>, bound |-> 1, default |-> <<>>, input_type |-> "path"],
      [file |-> <<B>>, bound |-> 1, default |-> <<>>, input_type |-> "path"] }

\* the disk a path field looks at, as validate_path sees it: whether the
\* active text names an existing path, whether that is a directory, and the
\* candidates built from the directory's entries (from the parent's entries
\* when the path does not exist)
Disk(act) ==
    IF act = B THEN [exists |-> TRUE, is_dir |-> TRUE, listing |-> <<BA, BB>>]
    ELSE IF act = BA THEN [exists |-> TRUE, is_dir |-> FALSE, listing |-> <<>>]
    ELSE [exists |-> FALSE, is_dir |-> FALSE, listing |-> <<act \o A>>]

(***************************************************************************)
(* Python's sequence operations.                                           *)
(***************************************************************************)
Min(x, y) == IF x <= y THEN x ELSE y

\* s.startswith(p)
StartsWith(s, p) == Len(p) <= Len(s) /\ SubSeq(s, 1, Len(p)) = p

\* s[i:] for i >= 0
SliceFrom(s, i) == IF i >= Len(s) THEN <<>> ELSE SubSeq(s, i + 1, Len(s))

\* list.insert(i, c) for i >= 0: an index past the end appends
InsertAt(s, i, c) ==
    LET k == Min(i, Len(s))
    IN  SubSeq(s, 1, k) \o <<c>> \o SubSeq(s, k + 1, Len(s))

\* list.pop(i) raises IndexError unless -len <= i < len
PopInRange(s, i) == -Len(s) <= i /\ i < Len(s)

\* the list after list.pop(i), for an index in range
PopAt(s, i) ==
    LET k == IF i < 0 THEN i + Len(s) ELSE i
    IN  SubSeq(s, 1, k) \o SubSeq(s, k + 2, Len(s))

\* s[::-1]
Reverse(s) == [i \in 1..Len(s) |-> s[Len(s) + 1 - i]]

\* x % n as Python computes it, for n > 0
PyMod(x, n) == x % n

\* self.history[i]: a negative index counts from the end
HistAt(i) == IF i < 0 THEN history[Len(history) + i + 1] ELSE history[i + 1]

(***************************************************************************)
(* The state of the Input object as a record, so that the methods are      *)
(* operators from state to state.                                          *)
(***************************************************************************)
St ==
    [ file |-> file,
      text_buffer |-> text_buffer,
      cursor_pos |-> cursor_pos,
      hist_ptr |-> hist_ptr,
      saved_text_buffer |-> saved_text_buffer,
      history_matches |-> history_matches,
      extended_matches |-> extended_matches,
      matches |-> matches,
      match_index |-> match_index,
      autocomplete_buffer |-> autocomplete_buffer,
      phase |-> phase,
      result |-> result ]

Set(s) ==
    /\ file' = s.file
    /\ text_buffer' = s.text_buffer
    /\ cursor_pos' = s.cursor_pos
    /\ hist_ptr' = s.hist_ptr
    /\ saved_text_buffer' = s.saved_text_buffer
    /\ history_matches' = s.history_matches
    /\ extended_matches' = s.extended_matches
    /\ matches' = s.matches
    /\ match_index' = s.match_index
    /\ autocomplete_buffer' = s.autocomplete_buffer
    /\ phase' = s.phase
    /\ result' = s.result
    /\ UNCHANGED <<bound, default, input_type, history>>

\* _read_history_file: the lines of the file, newline stripped
read_history_file(f) == f

\* _add_history_line: one line appended to the file
add_history_line(s, line) == [s EXCEPT !.file = Append(s.file, line)]

\* _get_active_buffer_string
get_active_buffer_string(s) ==
    IF s.hist_ptr < Len(history) THEN HistAt(s.hist_ptr) ELSE s.text_buffer

\* _pull_history_to_current
pull_history_to_current(s) ==
    IF s.hist_ptr < Len(history)
    THEN [s EXCEPT !.saved_text_buffer = <<>>,
                   !.text_buffer = HistAt(s.hist_ptr),
                   !.hist_ptr = Len(history)]
    ELSE s

\* an uncaught IndexError leaves get_input; nothing is written
raise(s) == [s EXCEPT !.phase = "crashed"]

backspace(s) ==
    LET p == pull_history_to_current(s)
        q == [p EXCEPT !.cursor_pos = p.cursor_pos - 1]
    IN  IF PopInRange(q.text_buffer, q.cursor_pos)
        THEN [q EXCEPT !.text_buffer = PopAt(q.text_buffer, q.cursor_pos)]
        ELSE raise(q)

delete(s) ==
    LET p == pull_history_to_current(s)
    IN  IF PopInRange(p.text_buffer, p.cursor_pos)
        THEN LET q == [p EXCEPT !.text_buffer = PopAt(p.text_buffer, p.cursor_pos)]
             IN  IF q.cursor_pos = Len(get_active_buffer_string(q)) + 1
                 THEN [q EXCEPT !.cursor_pos = q.cursor_pos - 1]
                 ELSE q
        ELSE raise(p)

RECURSIVE up(_)
up(s) ==
    LET s1 == IF s.saved_text_buffer = <<>>
              THEN [s EXCEPT !.saved_text_buffer = s.text_buffer]
              ELSE s
    IN  IF s1.hist_ptr > 0 /\ Len(HistAt(s1.hist_ptr - 1)) <= bound
        THEN LET s2 == [s1 EXCEPT !.hist_ptr = s1.hist_ptr - 1]
             IN  [s2 EXCEPT !.cursor_pos = Len(get_active_buffer_string(s2))]
        ELSE IF s1.hist_ptr > 0
             THEN up([s1 EXCEPT !.hist_ptr = s1.hist_ptr - 1])
             ELSE [s1 EXCEPT !.hist_ptr = s1.hist_ptr - 1]

RECURSIVE down(_)
down(s) ==
    LET s1 == IF /\ s.hist_ptr < Len(history) - 1
                 /\ Len(HistAt(s.hist_ptr + 1)) <= bound
              THEN [s EXCEPT !.hist_ptr = s.hist_ptr + 1]
              ELSE LET t == [s EXCEPT !.hist_ptr = s.hist_ptr + 1]
                   IN  IF t.hist_ptr < Len(history) - 1 THEN down(t) ELSE t
        s2 == IF s1.saved_text_buffer # <<>> /\ s1.hist_ptr = Len(history)
              THEN [s1 EXCEPT !.text_buffer = s1.saved_text_buffer,
                              !.saved_text_buffer = <<>>]
              ELSE s1
    IN  [s2 EXCEPT !.cursor_pos = Len(get_active_buffer_string(s2))]

\* the recursion of up() with the decrement of line 248 left out
RECURSIVE up_calls_stuck(_, _)
up_calls_stuck(s, made) ==
    IF made > Len(history) THEN made
    ELSE IF s.hist_ptr > 0 /\ Len(HistAt(s.hist_ptr - 1)) <= bound THEN made
    ELSE IF s.hist_ptr > 0 THEN up_calls_stuck(s, made + 1)
    ELSE made

\* the recursive calls up() makes from state s (line 249), added to made;
\* the count stops once it has passed len(history)
RECURSIVE up_calls(_, _)
up_calls(s, made) ==
    IF made > Len(history) THEN made
    ELSE IF s.hist_ptr > 0 /\ Len(HistAt(s.hist_ptr - 1)) <= bound THEN made
    ELSE IF s.hist_ptr > 0
         THEN up_calls([s EXCEPT !.hist_ptr = s.hist_ptr - 1], made + 1)
         ELSE made

\* the recursive calls down() makes from state s (line 259), added to made
RECURSIVE down_calls(_, _)
down_calls(s, made) ==
    IF made > Len(history) THEN made
    ELSE IF /\ s.hist_ptr < Len(history) - 1
            /\ Len(HistAt(s.hist_ptr + 1)) <= bound
         THEN made
    ELSE IF s.hist_ptr + 1 < Len(history) - 1
         THEN down_calls([s EXCEPT !.hist_ptr = s.hist_ptr + 1], made + 1)
         ELSE made

left(s) == [s EXCEPT !.cursor_pos = s.cursor_pos - 1]

\* _accept_history_match
accept_history_match(s) ==
    LET t == s.text_buffer \o SliceFrom(s.autocomplete_buffer, s.cursor_pos)
    IN  [s EXCEPT !.text_buffer = t, !.cursor_pos = Len(t)]

right(s) ==
    IF s.match_index > -1
    THEN accept_history_match(s)
    ELSE [s EXCEPT !.cursor_pos = s.cursor_pos + 1]

\* _load_history_matches
load_history_matches(s) ==
    LET act == get_active_buffer_string(s)
        fit(h) == StartsWith(h, act) /\ Len(h) <= bound
    IN  [s EXCEPT !.history_matches = Reverse(SelectSeq(history, fit))]

\* _next_history_match
next_history_match(s) ==
    IF s.matches # <<>>
    THEN LET i == PyMod(s.match_index + 1, Len(s.matches))
         IN  [s EXCEPT !.match_index = i,
                       !.autocomplete_buffer = s.matches[i + 1]]
    ELSE s

\* _prev_history_match: matches becomes the list of the characters of the
\* chosen history match past len(text_buffer)
prev_history_match(s) ==
    IF s.history_matches # <<>>
    THEN LET i == PyMod(s.match_index - 1, Len(s.history_matches))
             p == pull_history_to_current([s EXCEPT !.match_index = i])
             rest == SliceFrom(p.history_matches[i + 1], Len(p.text_buffer))
         IN  [p EXCEPT !.matches = [k \in 1..Len(rest) |-> <<rest[k]>>]]
    ELSE s

\* _clear_history_matches
clear_history_matches(s) ==
    [s EXCEPT !.match_index = -1, !.matches = <<>>, !.history_matches = <<>>]

\* _clear_matches
clear_matches(s) ==
    [s EXCEPT !.autocomplete_buffer = <<>>, !.matches = <<>>, !.match_index = -1]

\* _filter_autocomplete with the extended pool put before the history
filter_autocomplete_pool_first(s) ==
    LET possible_matches == s.extended_matches \o s.history_matches
        act == get_active_buffer_string(s)
        keep(m) == StartsWith(m, act)
    IN  [s EXCEPT !.matches = s.matches \o SelectSeq(possible_matches, keep)]

\* _filter_autocomplete
filter_autocomplete(s) ==
    LET possible_matches == s.history_matches \o s.extended_matches
        act == get_active_buffer_string(s)
        keep(m) == StartsWith(m, act)
    IN  [s EXCEPT !.matches = s.matches \o SelectSeq(possible_matches, keep)]

\* the loop of extend_autocomplete_pool over additions[::-1]
RECURSIVE extend_loop(_, _, _)
extend_loop(pool, rev, act) ==
    IF rev = <<>>
    THEN pool
    ELSE extend_loop(IF StartsWith(Head(rev), act)
                     THEN <<Head(rev)>> \o pool
                     ELSE pool,
                     Tail(rev), act)

extend_autocomplete_pool(s, additions) ==
    [s EXCEPT !.extended_matches =
        extend_loop(s.extended_matches, Reverse(additions),
                    get_active_buffer_string(s))]

clear_extended_autocomplete_pool(s) == [s EXCEPT !.extended_matches = <<>>]

init_autocomplete(s) == load_history_matches(clear_history_matches(s))

\* history_autocomplete without the test of line 345
history_autocomplete_ungated(s, changed, direction) ==
    LET s1 == IF changed THEN filter_autocomplete(clear_matches(s)) ELSE s
    IN  IF direction = 1
        THEN next_history_match(s1)
        ELSE prev_history_match(s1)

\* direction is 1 (forward) or -1 (backward)
history_autocomplete(s, changed, direction) ==
    IF s.history_matches # <<>>
    THEN LET s1 == IF changed THEN filter_autocomplete(clear_matches(s)) ELSE s
         IN  IF direction = 1
             THEN next_history_match(s1)
             ELSE prev_history_match(s1)
    ELSE s

\* is_partial_match
is_partial_match(s, partial_string) ==
    \E k \in 1..Len(s.matches) : StartsWith(s.matches[k], partial_string)

\* PathInput.validate_path, for what it does to the pool (the colour it
\* returns is rendering)
validate_path(s) ==
    LET act == get_active_buffer_string(s)
        fs == Disk(act)
    IN  IF act = <<>> THEN s
        ELSE IF fs.exists
        THEN LET c == clear_extended_autocomplete_pool(s)
             IN  IF fs.is_dir THEN extend_autocomplete_pool(c, fs.listing) ELSE c
        ELSE IF is_partial_match(s, act)
        THEN extend_autocomplete_pool(s, fs.listing)
        ELSE s

\* _draw_text_buffer: TextInput only renders, PathInput validates the path
draw_text_buffer(s) ==
    IF input_type = "path" THEN validate_path(s) ELSE s

(***************************************************************************)
(* get_input: the tail after the loop, and one operator per branch of the  *)
(* key dispatch.                                                           *)
(***************************************************************************)
\* the tail with the default forgotten: the text is appended and returned
\* even when it is empty
commit_without_default(s) ==
    [add_history_line(s, s.text_buffer) EXCEPT !.phase = "committed",
                                               !.result = s.text_buffer]

\* lines 425-434: the text, or the default when the text is empty, is
\* appended to the history file and returned
commit(s) ==
    LET finput == s.text_buffer
        line == IF finput # <<>> THEN finput ELSE default
    IN  [add_history_line(s, line) EXCEPT !.phase = "committed", !.result = line]

key_enter(s) ==
    IF s.hist_ptr # Len(history) /\ s.saved_text_buffer # <<>>
    THEN [s EXCEPT !.hist_ptr = Len(history),
                   !.cursor_pos = Min(Len(s.saved_text_buffer), bound)]
    ELSE commit([pull_history_to_current(s) EXCEPT !.hist_ptr = Len(history)])

\* the escape branch with the text saved on the way out
key_escape_saving(s) ==
    IF s.matches # <<>>
    THEN clear_matches(s)
    ELSE IF s.hist_ptr # Len(history)
         THEN [s EXCEPT !.hist_ptr = Len(history), !.cursor_pos = 0]
         ELSE [add_history_line(s, s.text_buffer) EXCEPT !.phase = "cancelled",
                                                         !.result = <<>>]

key_escape(s) ==
    IF s.matches # <<>>
    THEN clear_matches(s)
    ELSE IF s.hist_ptr # Len(history)
         THEN [s EXCEPT !.hist_ptr = Len(history), !.cursor_pos = 0]
         ELSE [s EXCEPT !.phase = "cancelled", !.result = <<>>]

key_backspace(s) ==
    IF s.cursor_pos > 0
    THEN LET b == backspace(s)
         IN  IF b.phase = "crashed" THEN b ELSE history_autocomplete(b, TRUE, 1)
    ELSE s

key_dc(s) ==
    IF s.cursor_pos < Len(get_active_buffer_string(s)) THEN delete(s) ELSE s

key_up(s) == IF s.hist_ptr > 0 THEN up(s) ELSE s

key_down(s) == IF s.hist_ptr < Len(history) THEN down(s) ELSE s

key_left(s) == IF s.cursor_pos > 0 THEN left(s) ELSE s

key_right(s) ==
    IF \/ /\ s.cursor_pos < bound
          /\ s.cursor_pos < Len(get_active_buffer_string(s))
       \/ s.matches # <<>>
    THEN right(s)
    ELSE s

key_home(s) == [s EXCEPT !.cursor_pos = 0]

key_end(s) ==
    [s EXCEPT !.cursor_pos = Min(Len(get_active_buffer_string(s)), bound)]

key_tab(s) == history_autocomplete(s, FALSE, 1)

key_btab(s) == history_autocomplete(s, FALSE, -1)

\* the last branch: a regular character
key_char(s, c) ==
    LET p == pull_history_to_current(s)
        q == IF p.cursor_pos < bound
             THEN [p EXCEPT !.text_buffer = InsertAt(p.text_buffer, p.cursor_pos, c),
                            !.cursor_pos = p.cursor_pos + 1]
             ELSE p
    IN  history_autocomplete(q, TRUE, 1)

\* CommandWindow.get_input, after the field has returned finput
CommandWindow_get_input(finput) ==
    IF bound <= 0 THEN <<>>
    ELSE IF finput # <<>> THEN finput
    ELSE default

(***************************************************************************)
(* The session.                                                            *)
(***************************************************************************)
\* Input.__init__
Construct(sessions) ==
    /\ \E session \in sessions :
        /\ bound = session.bound
        /\ default = session.default
        /\ input_type = session.input_type
        /\ file = session.file
    /\ history = read_history_file(file)
    /\ history_matches = <<>>
    /\ extended_matches = <<>>
    /\ matches = <<>>
    /\ match_index = -1
    /\ autocomplete_buffer = <<>>
    /\ text_buffer = <<>>
    /\ cursor_pos = 0
    /\ hist_ptr = Len(history)
    /\ saved_text_buffer = <<>>
    /\ phase = "constructed"
    /\ result = <<>>

Init == Construct(Sessions)

PathInit == Construct(PathSessions)

\* a field of either kind
FieldInit == Construct(Sessions \cup PathSessions)

\* get_input up to the first getch
Start ==
    /\ phase = "constructed"
    /\ Set([init_autocomplete(St) EXCEPT !.phase = "editing"])

\* getch returned 0: the while condition is false and the loop ends
LoopExit ==
    /\ phase = "editing"
    /\ Set(commit(St))

\* any other key when bound <= 0: return ""
NoRoom ==
    /\ phase = "editing"
    /\ bound <= 0
    /\ Set([St EXCEPT !.phase = "noroom", !.result = <<>>])

Editing == phase = "editing" /\ bound > 0

\* the longest edit buffer the model follows, by the kind of field
LenCap == IF input_type = "path" THEN MaxPathLen ELSE MaxLen

\* the end of one turn of the loop: unless the branch left get_input, the
\* field is redrawn (line 423)
Turn(s) ==
    IF s.phase = "editing"
    THEN LET d == draw_text_buffer(s)
         IN  /\ Len(d.extended_matches) <= MaxPool
             /\ Set(d)
    ELSE Set(s)

Enter == Editing /\ Turn(key_enter(St))

Escape == Editing /\ Turn(key_escape(St))

Backspace == Editing /\ Turn(key_backspace(St))

Delete == Editing /\ Turn(key_dc(St))

Up == Editing /\ Turn(key_up(St))

Down == Editing /\ Turn(key_down(St))

Left == Editing /\ Turn(key_left(St))

Right ==
    /\ Editing
    /\ Len(key_right(St).text_buffer) <= LenCap
    /\ Turn(key_right(St))

Home == Editing /\ Turn(key_home(St))

End == Editing /\ Turn(key_end(St))

Tab == Editing /\ Turn(key_tab(St))

BTab == Editing /\ Turn(key_btab(St))

Printable ==
    /\ Editing
    /\ \E c \in Char :
        /\ Len(key_char(St, c).text_buffer) <= LenCap
        /\ Turn(key_char(St, c))

Next ==
    \/ Start
    \/ LoopExit
    \/ NoRoom
    \/ Enter
    \/ Escape
    \/ Backspace
    \/ Delete
    \/ Up
    \/ Down
    \/ Left
    \/ Right
    \/ Home
    \/ End
    \/ Tab
    \/ BTab
    \/ Printable

Spec == Init /\ [][Next]_vars

PathSpec == PathInit /\ [][Next]_vars

FieldSpec == FieldInit /\ [][Next]_vars

(***************************************************************************)
(* The vocabulary of the specification, in terms of the fields.            *)
(***************************************************************************)
N == Len(history)

\* the text on display: History[pointer] while browsing, else the Edit Buffer
ActiveText == get_active_buffer_string(St)

Browsing == hist_ptr < N

\* line 241: "existence means we have saved text"
SavedDraftExists == saved_text_buffer # <<>>

\* right() accepts a suggestion when one is selected (line 269)
ActiveSuggestion == match_index > -1

\* C1  Bound invariant: while the field is editing, the active text is never
\* longer than the field bound; and a printable key pressed while the active
\* text holds bound units leaves the buffer as the active text was, wherever
\* the cursor is.
C1_BoundInvariant ==
    phase = "editing" =>
        /\ Len(ActiveText) <= bound
        /\ (bound > 0 /\ Len(ActiveText) = bound) =>
                \A c \in Char : key_char(St, c).text_buffer = ActiveText

\* C2  Cursor invariant: while the field is editing,
\* 0 <= cursor_pos <= min(bound, length of the active text).
C2_CursorInvariant ==
    phase = "editing" =>
        /\ 0 <= cursor_pos
        /\ cursor_pos <= Min(bound, Len(ActiveText))

\* k presses of History-Up, then History-Down until the pointer is back at N
RECURSIVE Older(_, _)
Older(s, k) == IF k = 0 THEN s ELSE Older(key_up(s), k - 1)

RECURSIVE NewerToLive(_)
NewerToLive(s) == IF s.hist_ptr >= N THEN s ELSE NewerToLive(key_down(s))

\* C3  Draft preservation: from any live state, History-Up one or more times
\* and then History-Down until the pointer is back at N leaves the Edit
\* Buffer as it was before the first History-Up.
C3_DraftPreservation ==
    (Editing /\ hist_ptr = N) =>
        \A k \in 1..N :
            NewerToLive(Older(St, k)).text_buffer = text_buffer

\* C4  Edit-breaks-browse: a printable key, a Backspace or a Delete that acts
\* while the field is browsing leaves the pointer at N, no Saved Draft, and
\* the Edit Buffer equal to the entry that was displayed with that one
\* mutation applied at the cursor (a printable key the field has no room for
\* leaves the entry as it was).
C4_EditBreaksBrowse ==
    (Editing /\ Browsing) =>
        /\ \A c \in Char :
            LET r == key_char(St, c)
            IN  /\ r.phase = "editing"
                /\ r.hist_ptr = N
                /\ r.saved_text_buffer = <<>>
                /\ r.text_buffer \in
                     {ActiveText, InsertAt(ActiveText, cursor_pos, c)}
        /\ cursor_pos > 0 =>
            LET r == key_backspace(St)
            IN  /\ r.phase = "editing"
                /\ r.hist_ptr = N
                /\ r.saved_text_buffer = <<>>
                /\ PopInRange(ActiveText, cursor_pos - 1)
                /\ r.text_buffer = PopAt(ActiveText, cursor_pos - 1)
        /\ cursor_pos < Len(ActiveText) =>
            LET r == key_dc(St)
            IN  /\ r.phase = "editing"
                /\ r.hist_ptr = N
                /\ r.saved_text_buffer = <<>>
                /\ r.text_buffer = PopAt(ActiveText, cursor_pos)

\* C5  Commit persists: a session that ended in Committed has appended
\* exactly one line to the history file, the final text when it is non-empty
\* and the default otherwise, and has returned that line; in every other
\* state the file is as it was read at construction.
C5_CommitPersists ==
    /\ phase = "committed" =>
        LET line == IF text_buffer # <<>> THEN text_buffer ELSE default
        IN  /\ file = Append(history, line)
            /\ result = line
    /\ phase # "committed" => file = history

\* a session committed the text the user typed and then edited
C5_Witness ==
    /\ phase = "committed"
    /\ text_buffer = BA
    /\ result = BA
    /\ file = Append(history, BA)

\* C6  Autocomplete prefix invariant: while the field is editing, every
\* candidate of the match list, and the suggestion when one is shown, starts
\* with the active text.
C6_PrefixInvariant ==
    phase = "editing" =>
        /\ \A k \in 1..Len(matches) : StartsWith(matches[k], ActiveText)
        /\ autocomplete_buffer # <<>> => StartsWith(autocomplete_buffer, ActiveText)

\* C7  Accept result: when the field is live, a suggestion that extends the
\* Edit Buffer is selected and the cursor is anywhere within the text,
\* Cursor-Right leaves the Edit Buffer equal to the suggestion and the cursor
\* at its end.
C7_AcceptResult ==
    ( /\ Editing
      /\ ~Browsing
      /\ ActiveSuggestion
      /\ matches # <<>>
      /\ StartsWith(autocomplete_buffer, text_buffer)
      /\ cursor_pos <= Len(text_buffer) ) =>
        LET r == key_right(St)
        IN  /\ r.text_buffer = autocomplete_buffer
            /\ r.cursor_pos = Len(autocomplete_buffer)

\* C8  Saved-draft lifecycle: while the field is editing, a Saved Draft
\* exists if and only if the History Pointer is below N.
C8_SavedDraftLifecycle ==
    phase = "editing" => (SavedDraftExists <=> Browsing)

\* C9  Confirm semantics: a Confirm while a Saved Draft exists does not end
\* the session and leaves the pointer at N; a Confirm with no Saved Draft
\* ends the session in Committed with the active text (the default when the
\* active text is empty).
C9_ConfirmSemantics ==
    Editing =>
        LET r == key_enter(St)
        IN  IF SavedDraftExists
            THEN /\ r.phase = "editing"
                 /\ r.hist_ptr = N
            ELSE /\ r.phase = "committed"
                 /\ r.text_buffer = ActiveText
                 /\ r.result = IF ActiveText # <<>> THEN ActiveText ELSE default

\* the field draws a dimmed suggestion when autocomplete_buffer is not
\* empty (line 201)
SuggestionShown == autocomplete_buffer # <<>>

\* C10  Cancel priority: a Cancel ends the session only when no suggestion is
\* shown and the pointer is at N; with a suggestion shown it clears the match
\* list and the suggestion and nothing else; with no suggestion selected and
\* no match list, while browsing, it returns to the live buffer and nothing
\* else; and three Cancels in a row always end the session.
C10_CancelPriority ==
    Editing =>
        LET r == key_escape(St)
        IN  /\ r.phase = "cancelled" => (~SuggestionShown /\ ~Browsing)
            /\ SuggestionShown =>
                r = [St EXCEPT !.matches = <<>>,
                               !.match_index = -1,
                               !.autocomplete_buffer = <<>>]
            /\ (~ActiveSuggestion /\ matches = <<>> /\ hist_ptr # N) =>
                r = [St EXCEPT !.hist_ptr = N, !.cursor_pos = 0]
            /\ key_escape(key_escape(r)).phase = "cancelled"

\* C11  Cancel persists nothing: a session that ended in Cancelled has
\* appended no line to the history file and the field has returned the empty
\* result, which CommandWindow.get_input replaces by the caller's default.
C11_CancelPersistsNothing ==
    phase = "cancelled" =>
        /\ file = history
        /\ result = <<>>
        /\ CommandWindow_get_input(result) = default

\* the user typed a text and cancelled, in a field with a default
C11_Witness ==
    /\ phase = "cancelled"
    /\ text_buffer # <<>>
    /\ default # <<>>
    /\ file = history

\* the match list a refresh computes for the state (lines 347-348)
Refreshed(s) == filter_autocomplete(clear_matches(s)).matches

\* k Autocomplete-Forward events in a row
RECURSIVE Forward(_, _)
Forward(s, k) == IF k = 0 THEN s ELSE Forward(key_tab(s), k - 1)

\* C12  Forward cycle wraps: with a match list of n candidates, an
\* Autocomplete-Forward event moves the selection to (index + 1) mod n, shows
\* that candidate and leaves the list alone, and n events in a row return to
\* the same selection; and from no selection, when n candidates of the pool
\* match the active text, n + 1 events in a row end on the first of them.
C12_ForwardCycleWraps ==
    Editing =>
        /\ matches # <<>> =>
            LET n == Len(matches)
                r == key_tab(St)
            IN  /\ r.match_index = PyMod(match_index + 1, n)
                /\ r.autocomplete_buffer = matches[r.match_index + 1]
                /\ r.matches = matches
                /\ Forward(r, n).match_index = r.match_index
                /\ Forward(r, n).autocomplete_buffer = r.autocomplete_buffer
        /\ (~ActiveSuggestion /\ history_matches # <<>> /\ Refreshed(St) # <<>>) =>
            LET n == Len(Refreshed(St))
                r == Forward(St, n + 1)
            IN  /\ r.match_index = 0
                /\ r.autocomplete_buffer = Refreshed(St)[1]

\* C13  Backward cycle: with a match list of n candidates, an
\* Autocomplete-Backward event moves the selection to (index - 1) mod n (the
\* last candidate when nothing was selected), shows that candidate as the
\* suggestion and leaves the list alone; and a forward cycle followed by a
\* backward cycle returns to the same selection and suggestion.
C13_BackwardCycle ==
    (Editing /\ matches # <<>>) =>
        LET n == Len(matches)
            r == key_btab(St)
            f == key_tab(St)
            fb == key_btab(f)
        IN  /\ r.matches = matches
            /\ r.match_index = PyMod(match_index - 1, n)
            /\ r.autocomplete_buffer = matches[PyMod(match_index - 1, n) + 1]
            /\ fb.match_index = PyMod(match_index, n)
            /\ fb.autocomplete_buffer = matches[PyMod(match_index, n) + 1]
            /\ fb.matches = matches

\* C14  History-pointer range: in every state, 0 <= History Pointer <= N.
C14_PointerRange == 0 <= hist_ptr /\ hist_ptr <= N

\* C15  Too-long entries are skipped: whenever the field is browsing, the
\* entry on display, which an edit would pull into the Edit Buffer, is not
\* longer than the bound.
C15_TooLongSkipped ==
    (phase = "editing" /\ Browsing) =>
        /\ Len(HistAt(hist_ptr)) <= bound
        /\ Len(pull_history_to_current(St).text_buffer) <= bound

\* C16  Navigation terminates: a History-Up event that passes its guard makes
\* at most N recursive calls of up() and ends with the pointer strictly
\* lower; a History-Down event that passes its guard makes at most N
\* recursive calls of down() and ends with the pointer strictly higher.
C16_NavigationTerminates ==
    Editing =>
        /\ hist_ptr > 0 =>
            /\ up_calls(St, 0) <= N
            /\ key_up(St).hist_ptr < hist_ptr
        /\ hist_ptr < N =>
            /\ down_calls(St, 0) <= N
            /\ key_down(St).hist_ptr > hist_ptr

\* a History-Up has to recurse over a too-long entry
C16_Witness ==
    /\ Editing
    /\ hist_ptr > 0
    /\ up_calls(St, 0) >= 1
    /\ key_up(St).hist_ptr < hist_ptr - 1

\* after that History-Up, a History-Down has to recurse as well
C16_WitnessDown ==
    /\ Editing
    /\ hist_ptr < N - 1
    /\ down_calls(St, 0) >= 1
    /\ key_down(St).hist_ptr > hist_ptr + 1

\* the state r is freshly refreshed: the match list is the pool filtered by
\* the active text, and the suggestion, if any, is one of its candidates
Fresh(r) ==
    /\ r.matches = Refreshed(r)
    /\ r.autocomplete_buffer # <<>> =>
            \E k \in 1..Len(r.matches) : r.autocomplete_buffer = r.matches[k]

\* C17  Mutation forces refresh: after a printable key, and after a Backspace
\* or a Delete that passes its guard and removes a unit, the match list is
\* the candidate pool filtered by the new active text and no suggestion from
\* before the mutation is left.
C17_MutationRefreshes ==
    Editing =>
        /\ \A c \in Char : Fresh(key_char(St, c))
        /\ (cursor_pos > 0 /\ key_backspace(St).phase = "editing") =>
                Fresh(key_backspace(St))
        /\ (cursor_pos < Len(ActiveText) /\ key_dc(St).phase = "editing") =>
                Fresh(key_dc(St))

\* C18  Accept clears the suggestion: after a Cursor-Right that accepted the
\* selected suggestion, no suggestion is selected or shown, and a later
\* Cursor-Left or Cursor-Right, alone or one after the other, leaves the Edit
\* Buffer as the accept left it.
C18_AcceptClears ==
    (Editing /\ ActiveSuggestion /\ key_right(St) # St) =>
        LET r == key_right(St)
        IN  /\ r.match_index = -1
            /\ r.autocomplete_buffer = <<>>
            /\ key_right(r).text_buffer = r.text_buffer
            /\ key_left(r).text_buffer = r.text_buffer
            /\ key_right(key_left(r)).text_buffer = r.text_buffer

\* the match list the specification describes for state r: the history
\* entries that fit the bound and start with the active text, newest first,
\* then the candidates of the extended pool that start with it, in the
\* pool's order
OrderedMatches(r) ==
    LET act == get_active_buffer_string(r)
        fromHistory(h) == Len(h) <= bound /\ StartsWith(h, act)
        fromPool(m) == StartsWith(m, act)
    IN  Reverse(SelectSeq(history, fromHistory))
            \o SelectSeq(r.extended_matches, fromPool)

\* the refresh left r with the ordered match list and its head on offer
RefreshedInOrder(r) ==
    /\ r.matches = OrderedMatches(r)
    /\ r.matches # <<>> =>
            (r.match_index = 0 /\ r.autocomplete_buffer = r.matches[1])
    /\ r.matches = <<>> =>
            (r.match_index = -1 /\ r.autocomplete_buffer = <<>>)

\* C19  Match-list order: after a refresh (a printable key or a Backspace,
\* in a field that has history candidates), the match list is the history
\* entries of length <= bound that start with the active text, newest first
\* and duplicates kept, followed by the candidates of the extended pool that
\* start with the active text in the order they were supplied, and the
\* suggestion offered is the head of the list; and a directory listing is
\* taken into the pool in the order the listing has.
C19_MatchListOrder ==
    Editing =>
        /\ history_matches # <<>> =>
            /\ \A c \in Char : RefreshedInOrder(key_char(St, c))
            /\ (cursor_pos > 0 /\ key_backspace(St).phase = "editing") =>
                    RefreshedInOrder(key_backspace(St))
        /\ (input_type = "path" /\ Disk(ActiveText).exists
                                /\ Disk(ActiveText).is_dir) =>
            LET keep(m) == StartsWith(m, ActiveText)
            IN  draw_text_buffer(St).extended_matches
                    = SelectSeq(Disk(ActiveText).listing, keep)

\* a refresh has put a history entry before two candidates of the pool
C19_Witness ==
    /\ Editing
    /\ match_index = 0
    /\ Len(matches) = 3
    /\ matches[1] \in { history[k] : k \in 1..N }
    /\ extended_matches = <<matches[2], matches[3]>>
    /\ matches[2] # matches[3]

\* a refresh has kept both copies of a history entry stored twice
C19_WitnessDuplicates ==
    /\ Editing
    /\ N = 2
    /\ history[1] = history[2]
    /\ matches = <<history[2], history[1]>>

\* a refresh has put the newer of two history entries first
C19_WitnessHistory ==
    /\ Editing
    /\ N = 2
    /\ match_index = 0
    /\ matches = <<history[2], history[1]>>
    /\ history[1] # history[2]

\* C20  No event crashes the session: no session is ended by an IndexError,
\* and while the field is editing a Backspace or a Delete that passes its
\* guard pops an index inside the Edit Buffer as pull-to-live leaves it and
\* removes exactly one unit.
C20_NoCrash ==
    /\ phase # "crashed"
    /\ Editing =>
        LET p == pull_history_to_current(St)
        IN  /\ cursor_pos > 0 =>
                /\ 0 <= cursor_pos - 1
                /\ cursor_pos - 1 < Len(p.text_buffer)
                /\ Len(key_backspace(St).text_buffer) = Len(p.text_buffer) - 1
            /\ cursor_pos < Len(ActiveText) =>
                /\ 0 <= cursor_pos
                /\ cursor_pos < Len(p.text_buffer)
                /\ Len(key_dc(St).text_buffer) = Len(p.text_buffer) - 1

\* C21  Autocomplete is gated on history: from the start of the session on,
\* the history-candidate list is the history entries of length <= bound,
\* newest first, as loaded at the start, whatever the text has become; and
\* when that list is empty there is no match list, no selected suggestion and
\* no suggestion shown, whatever the extended pool holds.
C21_GatedOnHistory ==
    phase # "constructed" =>
        LET fits(h) == Len(h) <= bound
        IN  /\ history_matches = Reverse(SelectSeq(history, fits))
            /\ history_matches = <<>> =>
                /\ matches = <<>>
                /\ match_index = -1
                /\ autocomplete_buffer = <<>>

\* a field whose only history entry does not fit the bound: the pool holds
\* two candidates, the text has been emptied again by a Backspace, both
\* candidates start with it, and nothing is offered
C21_Witness ==
    /\ Editing
    /\ N > 0
    /\ history_matches = <<>>
    /\ Len(extended_matches) = 2
    /\ text_buffer = <<>>
    /\ hist_ptr = N
    /\ matches = <<>>
    /\ match_index = -1

====
